---- MODULE Spec2Model ----
(***************************************************************************)
(* Body-fat estimation core of fitplanner-bf-api: the texture estimator,   *)
(* the rule-based estimator, the physiological validator and the ensemble  *)
(* (fusion) predictor.                                                     *)
(*                                                                         *)
(* Number representation (the Python code computes on floats; the model    *)
(* computes the same expressions exactly, on scaled integers):             *)
(*   - body-fat percentages returned by a function are in tenths of a      *)
(*     percent (19.0 % is 190), since every producer rounds to 1 decimal;  *)
(*   - an unrounded percentage is a fraction [n, d] of tenths (n/d);       *)
(*   - BMI is in tenths (28.5 is 285);                                     *)
(*   - image scores, widths and ratios are in hundredths (0.68 is 68);     *)
(*   - TextureSignals.confidence is in tenths (0.4 is 4);                  *)
(*   - per-method confidences are in millionths (0.7 is 700000), which is  *)
(*     exact for every product of the code's factors on these inputs.      *)
(* round(x, k) is modelled on the exact value, ties to even; on binary     *)
(* floats a decimal tie can fall to either neighbour, so no property below *)
(* relies on the direction in which a tie is resolved.                     *)
(***************************************************************************)
EXTENDS Integers, Sequences, FiniteSets, TLC

VARIABLES pc, op, args, res, again

vars == <<pc, op, args, res, again>>

-----------------------------------------------------------------------------
(* Arithmetic helpers                                                      *)

Abs(x) == IF x < 0 THEN -x ELSE x

Min(a, b) == IF a < b THEN a ELSE b

Max(a, b) == IF a > b THEN a ELSE b

\* Python round() of the exact fraction n/d (d > 0) to an integer, ties to even.
Round(n, d) ==
    LET q == n \div d
        r == n % d
    IN  IF 2 * r < d THEN q
        ELSE IF 2 * r > d THEN q + 1
        ELSE IF q % 2 = 0 THEN q ELSE q + 1

\* dict.get(key, default)
Get(dict, key, default) == IF key \in DOMAIN dict THEN dict[key] ELSE default

\* Optional values: None is the empty sequence, a present value x is <<x>>.
None == <<>>

Some(x) == <<x>>

\* Scale of the per-method confidences (millionths).
CONF == 1000 * 1000

\* Scale of the unrounded texture estimate: tenths of a percent times 10^5.
TEXQ == 100 * 1000

\* Physiological bounds in tenths of a percent.
LowerBound(sex) == IF sex = "male" THEN 50 ELSE 120

UpperBound(sex) == IF sex = "male" THEN 450 ELSE 500

-----------------------------------------------------------------------------
(* texture_analyzer.estimate_bf_from_definition                            *)

\* visual_score after the central-fat penalty, in units of 10^-5.
visual_score(definition_data) ==
    LET central_fat == Get(definition_data, "central_fat", 50)
        raw == definition_data["definition_score"] * 40
               + definition_data["abs_visibility"] * 35
               + definition_data["vascularity"] * 25
    IN  IF central_fat > 70 THEN raw * 7
        ELSE IF central_fat > 60 THEN raw * 8
        ELSE IF central_fat > 50 THEN raw * 9
        ELSE raw * 10

\* The sex-specific piecewise-linear mapping; result in TEXQ units.
\* vs is in 10^-5, so (x - vs) * k percent is (x*10^5 - vs) * k * 10 TEXQ units.
texture_mapping(vs, sex) ==
    IF sex = "male"
    THEN IF vs > 85000 THEN 70 * TEXQ + (100000 - vs) * 270
         ELSE IF vs > 70000 THEN 110 * TEXQ + (85000 - vs) * 330
         ELSE IF vs > 50000 THEN 160 * TEXQ + (70000 - vs) * 400
         ELSE 240 * TEXQ + (50000 - vs) * 500
    ELSE IF vs > 80000 THEN 140 * TEXQ + (100000 - vs) * 300
         ELSE IF vs > 60000 THEN 200 * TEXQ + (80000 - vs) * 300
         ELSE IF vs > 40000 THEN 260 * TEXQ + (60000 - vs) * 400
         ELSE 340 * TEXQ + (40000 - vs) * 500

\* BMI sanity override; bf in TEXQ units, bmi in tenths.
texture_bmi_override(bf, bmi) ==
    IF bmi < 200 /\ bf > 160 * TEXQ THEN (90 + (bmi - 180) * 3) * TEXQ
    ELSE IF bmi > 300 /\ bf < 200 * TEXQ
         THEN 200 * TEXQ + (bmi - 300) * 25 * (TEXQ \div 10)
    ELSE bf

\* texture_central_fat_correction without the cap at the sex upper bound.
texture_central_fat_correction_uncapped(bf, central_fat, sex) ==
    IF central_fat > 75 THEN bf + 50 * TEXQ
    ELSE IF central_fat > 65 THEN bf + 30 * TEXQ
    ELSE bf

\* Additive central-fat correction, capped at the sex upper bound.
texture_central_fat_correction(bf, central_fat, sex) ==
    IF central_fat > 75 THEN Min(bf + 50 * TEXQ, UpperBound(sex) * TEXQ)
    ELSE IF central_fat > 65 THEN Min(bf + 30 * TEXQ, UpperBound(sex) * TEXQ)
    ELSE bf

\* Returns the texture estimate in tenths of a percent.
estimate_bf_from_definition(definition_data, sex, bmi) ==
    LET central_fat == Get(definition_data, "central_fat", 50)
        mapped == texture_mapping(visual_score(definition_data), sex)
        overridden == texture_bmi_override(mapped, bmi)
        corrected == texture_central_fat_correction(overridden, central_fat, sex)
    IN  Round(corrected, TEXQ)

-----------------------------------------------------------------------------
(* bf_validator.validate_and_adjust_bf                                     *)

\* Fractions of tenths of a percent.
Frac(n, d) == [n |-> n, d |-> d]

FracGT(x, k) == x.n > k * x.d

FracLT(x, k) == x.n < k * x.d

\* max(lo, min(x, hi)) on a fraction, lo and hi in tenths.
ClampFrac(x, lo, hi) ==
    IF FracGT(x, hi) THEN Frac(hi, 1)
    ELSE IF FracLT(x, lo) THEN Frac(lo, 1)
    ELSE x

\* Rule 1: BMI < 22 and prediction > 20.
rule_low_bmi_triggers(bf_prediction, bmi) ==
    bmi < 220 /\ FracGT(bf_prediction, 200)

rule_low_bmi_value(bmi, sex) ==
    IF sex = "male" THEN Frac(80 + (bmi - 180) * 2, 1)
    ELSE Frac(160 + (bmi - 180) * 2, 1)

\* Rule 2: athletic signature and prediction > 18.
is_athletic(bmi, measurements, ratios) ==
    /\ Get(ratios, "waist_to_shoulder", 60) < 50
    /\ Get(measurements, "volume_indicator", 15) > 20
    /\ 200 <= bmi
    /\ bmi <= 260

rule_athletic_triggers(bf_prediction, bmi, measurements, ratios) ==
    is_athletic(bmi, measurements, ratios) /\ FracGT(bf_prediction, 180)

\* rule_athletic_value with the slope of the wide-waist rule (40), not 20.
rule_athletic_value_slope_40(ratios, sex) ==
    IF sex = "male" THEN Frac(80 + Get(ratios, "waist_to_shoulder", 60) * 4, 1)
    ELSE Frac(160 + Get(ratios, "waist_to_shoulder", 60) * 4, 1)

rule_athletic_value(ratios, sex) ==
    IF sex = "male" THEN Frac(80 + Get(ratios, "waist_to_shoulder", 60) * 2, 1)
    ELSE Frac(160 + Get(ratios, "waist_to_shoulder", 60) * 2, 1)

\* Rule 3: BMI > 28 and prediction < 20.
rule_high_bmi_triggers(bf_prediction, bmi) ==
    bmi > 280 /\ FracLT(bf_prediction, 200)

rule_high_bmi_value(bmi, sex) ==
    IF sex = "male" THEN Frac(400 + (bmi - 280) * 3, 2)
    ELSE Frac(560 + (bmi - 280) * 3, 2)

\* Rule 4: waist_to_shoulder > 0.70 and prediction < 22.
rule_wide_waist_triggers(bf_prediction, ratios) ==
    Get(ratios, "waist_to_shoulder", 60) > 70 /\ FracLT(bf_prediction, 220)

rule_wide_waist_value(ratios, sex) ==
    IF sex = "male" THEN Frac(220 + (Get(ratios, "waist_to_shoulder", 60) - 70) * 4, 1)
    ELSE Frac(300 + (Get(ratios, "waist_to_shoulder", 60) - 70) * 4, 1)

\* validate_and_adjust_bf with each trigger tested on the value left by the
\* rules before it, not on the original prediction.
validate_and_adjust_bf_chained_triggers(bf_prediction, bmi, sex, measurements, ratios) ==
    LET t1 == rule_low_bmi_triggers(bf_prediction, bmi)
        a1 == IF t1 THEN rule_low_bmi_value(bmi, sex) ELSE bf_prediction
        t2 == rule_athletic_triggers(a1, bmi, measurements, ratios)
        a2 == IF t2 THEN rule_athletic_value(ratios, sex) ELSE a1
        t3 == rule_high_bmi_triggers(a2, bmi)
        a3 == IF t3 THEN rule_high_bmi_value(bmi, sex) ELSE a2
        t4 == rule_wide_waist_triggers(a3, ratios)
        a4 == IF t4 THEN rule_wide_waist_value(ratios, sex) ELSE a3
        reason == IF t4 THEN "wide_waist"
                  ELSE IF t3 THEN "high_bmi"
                  ELSE IF t2 THEN "athletic"
                  ELSE IF t1 THEN "low_bmi"
                  ELSE ""
        clamped == ClampFrac(a4, LowerBound(sex), UpperBound(sex))
    IN  [adjusted_bf |-> Round(clamped.n, clamped.d),
         original_bf |-> Round(bf_prediction.n, bf_prediction.d),
         was_adjusted |-> t1 \/ t2 \/ t3 \/ t4,
         reason |-> reason,
         confidence |-> IF t1 \/ t2 \/ t3 \/ t4 THEN "adjusted" ELSE "high"]

\* The four rules in source order, every trigger tested on the original
\* prediction, each triggered rule overwriting adjusted_bf and reason.
validate_and_adjust_bf(bf_prediction, bmi, sex, measurements, ratios) ==
    LET t1 == rule_low_bmi_triggers(bf_prediction, bmi)
        t2 == rule_athletic_triggers(bf_prediction, bmi, measurements, ratios)
        t3 == rule_high_bmi_triggers(bf_prediction, bmi)
        t4 == rule_wide_waist_triggers(bf_prediction, ratios)
        a1 == IF t1 THEN rule_low_bmi_value(bmi, sex) ELSE bf_prediction
        a2 == IF t2 THEN rule_athletic_value(ratios, sex) ELSE a1
        a3 == IF t3 THEN rule_high_bmi_value(bmi, sex) ELSE a2
        a4 == IF t4 THEN rule_wide_waist_value(ratios, sex) ELSE a3
        reason == IF t4 THEN "wide_waist"
                  ELSE IF t3 THEN "high_bmi"
                  ELSE IF t2 THEN "athletic"
                  ELSE IF t1 THEN "low_bmi"
                  ELSE ""
        clamped == ClampFrac(a4, LowerBound(sex), UpperBound(sex))
    IN  [adjusted_bf |-> Round(clamped.n, clamped.d),
         original_bf |-> Round(bf_prediction.n, bf_prediction.d),
         was_adjusted |-> t1 \/ t2 \/ t3 \/ t4,
         reason |-> reason,
         confidence |-> IF t1 \/ t2 \/ t3 \/ t4 THEN "adjusted" ELSE "high"]

-----------------------------------------------------------------------------
(* ensemble_predictor                                                      *)

\* x * num / den on a confidence in millionths.
Scale(x, num, den) == (x * num) \div den

\* _calculate_ml_confidence: 0.5, discounted per out-of-range signal.
calculate_ml_confidence(measurements, ratios, bmi) ==
    LET c0 == CONF \div 2
        c1 == IF bmi < 180 \/ bmi > 350 THEN Scale(c0, 8, 10) ELSE c0
        waist_ratio == Get(ratios, "waist_to_shoulder", 60)
        c2 == IF waist_ratio < 35 \/ waist_ratio > 80 THEN Scale(c1, 85, 100) ELSE c1
        volume == Get(measurements, "volume_indicator", 15)
        c3 == IF volume < 10 \/ volume > 35 THEN Scale(c2, 9, 10) ELSE c2
    IN  c3

\* _get_confidence_level, on a confidence in units of 10^-9.
get_confidence_level(confidence) ==
    IF confidence >= 850 * CONF THEN "Muito Alta"
    ELSE IF confidence >= 700 * CONF THEN "Alta"
    ELSE IF confidence >= 550 * CONF THEN "Media"
    ELSE IF confidence >= 400 * CONF THEN "Baixa"
    ELSE "Muito Baixa"

\* Lines 85-89: degenerate landmark extraction.
measurements_suspicious(measurements, ratios) ==
    \/ Get(measurements, "shoulder_width", 40) < 25
    \/ Get(measurements, "hip_width", 30) < 15
    \/ Get(ratios, "waist_to_shoulder", 60) > 80

\* Lines 120-125.
is_athlete(texture_data, bmi) ==
    /\ Get(texture_data, "definition_score", 50) > 65
    /\ Get(texture_data, "abs_visibility", 50) > 60
    /\ Get(texture_data, "central_fat", 50) < 45
    /\ 200 <= bmi
    /\ bmi <= 260

\* Lines 134-137.
is_overweight(bmi, ratios) ==
    bmi > 280 /\ Get(ratios, "waist_to_shoulder", 60) > 65

\* adjusted_confidences with the low-image-quality test made on the texture
\* confidence as given, before the three earlier rules.
adjusted_confidences_low_test_first(texture_data, bmi, measurements, ratios) ==
    LET t0 == Get(texture_data, "confidence", 5) * (CONF \div 10)
        r0 == Scale(CONF, 7, 10)
        low == t0 < Scale(CONF, 4, 10)
        athlete == is_athlete(texture_data, bmi)
        t1 == IF athlete THEN Min(Scale(t0, 14, 10), CONF) ELSE t0
        r1 == IF athlete THEN Scale(r0, 9, 10) ELSE r0
        overweight == is_overweight(bmi, ratios)
        r2 == IF overweight THEN Min(Scale(r1, 13, 10), CONF) ELSE r1
        t2 == IF overweight THEN Scale(t1, 85, 100) ELSE t1
        suspicious == measurements_suspicious(measurements, ratios)
        t3 == IF suspicious THEN Min(Scale(t2, 16, 10), CONF) ELSE t2
        r3 == IF suspicious THEN Scale(r2, 7, 10) ELSE r2
        r4 == IF low THEN Min(Scale(r3, 12, 10), CONF) ELSE r3
        t4 == IF low THEN Scale(t3, 8, 10) ELSE t3
    IN  [rules |-> r4, texture |-> t4, low_quality_rule |-> low]

\* adjusted_confidences without the caps at 1.0.
adjusted_confidences_uncapped(texture_data, bmi, measurements, ratios) ==
    LET t0 == Get(texture_data, "confidence", 5) * (CONF \div 10)
        r0 == Scale(CONF, 7, 10)
        athlete == is_athlete(texture_data, bmi)
        t1 == IF athlete THEN Scale(t0, 14, 10) ELSE t0
        r1 == IF athlete THEN Scale(r0, 9, 10) ELSE r0
        overweight == is_overweight(bmi, ratios)
        r2 == IF overweight THEN Scale(r1, 13, 10) ELSE r1
        t2 == IF overweight THEN Scale(t1, 85, 100) ELSE t1
        suspicious == measurements_suspicious(measurements, ratios)
        t3 == IF suspicious THEN Scale(t2, 16, 10) ELSE t2
        r3 == IF suspicious THEN Scale(r2, 7, 10) ELSE r2
        low == t3 < Scale(CONF, 4, 10)
        r4 == IF low THEN Scale(r3, 12, 10) ELSE r3
        t4 == IF low THEN Scale(t3, 8, 10) ELSE t3
    IN  [rules |-> r4, texture |-> t4, low_quality_rule |-> low]

\* Lines 102-157: the two confidences after the four special-case rules, each
\* rule reading the confidences left by the previous one.
adjusted_confidences(texture_data, bmi, measurements, ratios) ==
    LET t0 == Get(texture_data, "confidence", 5) * (CONF \div 10)
        r0 == Scale(CONF, 7, 10)
        athlete == is_athlete(texture_data, bmi)
        t1 == IF athlete THEN Min(Scale(t0, 14, 10), CONF) ELSE t0
        r1 == IF athlete THEN Scale(r0, 9, 10) ELSE r0
        overweight == is_overweight(bmi, ratios)
        r2 == IF overweight THEN Min(Scale(r1, 13, 10), CONF) ELSE r1
        t2 == IF overweight THEN Scale(t1, 85, 100) ELSE t1
        suspicious == measurements_suspicious(measurements, ratios)
        t3 == IF suspicious THEN Min(Scale(t2, 16, 10), CONF) ELSE t2
        r3 == IF suspicious THEN Scale(r2, 7, 10) ELSE r2
        low == t3 < Scale(CONF, 4, 10)
        r4 == IF low THEN Min(Scale(r3, 12, 10), CONF) ELSE r3
        t4 == IF low THEN Scale(t3, 8, 10) ELSE t3
    IN  [rules |-> r4, texture |-> t4, low_quality_rule |-> low]

\* Lines 119-157: the notes the four rules append, in order.
special_case_notes(texture_data, bmi, measurements, ratios) ==
    LET c == adjusted_confidences(texture_data, bmi, measurements, ratios)
    IN  (IF measurements_suspicious(measurements, ratios) THEN <<"suspicious">> ELSE <<>>)
        \o (IF is_athlete(texture_data, bmi) THEN <<"athlete">> ELSE <<>>)
        \o (IF is_overweight(bmi, ratios) THEN <<"overweight">> ELSE <<>>)
        \o (IF measurements_suspicious(measurements, ratios) THEN <<"partial">> ELSE <<>>)
        \o (IF c.low_quality_rule THEN <<"low_quality">> ELSE <<>>)

\* safe_fusion with the two confidences used as weights without dividing by
\* their sum.
safe_fusion_not_normalised(rules_prediction, texture_prediction, rules_confidence, texture_confidence) ==
    Frac(rules_prediction * rules_confidence + texture_prediction * texture_confidence,
         CONF)

\* Lines 164-172: SAFE fusion, the unrounded estimate as a fraction of tenths.
safe_fusion(rules_prediction, texture_prediction, rules_confidence, texture_confidence) ==
    Frac(rules_prediction * rules_confidence + texture_prediction * texture_confidence,
         rules_confidence + texture_confidence)

\* Lines 189-191: the ML confidence used by the EXPERIMENTAL fusion.
experimental_ml_confidence(ml_confidence, ml_divergence) ==
    IF ml_divergence > 100 THEN Scale(ml_confidence, 3, 10) ELSE ml_confidence

\* experimental_fusion that leaves the ML estimate out of the blend.
experimental_fusion_without_ml(ml_prediction, rules_prediction, texture_prediction, ml_confidence, rules_confidence, texture_confidence) ==
    Frac(rules_prediction * rules_confidence + texture_prediction * texture_confidence,
         rules_confidence + texture_confidence)

\* Lines 194-203: EXPERIMENTAL fusion, unrounded.
experimental_fusion(ml_prediction, rules_prediction, texture_prediction, ml_confidence, rules_confidence, texture_confidence) ==
    Frac(ml_prediction * ml_confidence + rules_prediction * rules_confidence
            + texture_prediction * texture_confidence,
         ml_confidence + rules_confidence + texture_confidence)

\* Lines 247-255: agreement*0.6 + avg_confidence*0.4 clamped to [0.3, 1.0],
\* in units of 10^-7. np.std of two values is half their distance.
clamped_confidence(rules_prediction, texture_prediction, rules_confidence, texture_confidence) ==
    LET agreement == CONF - Abs(rules_prediction - texture_prediction) * 2500
        raw == agreement * 6 + (rules_confidence + texture_confidence) * 2
    IN  Max(3 * CONF, Min(raw, 10 * CONF))

\* final_confidence with the discount threshold at 20 points, not 15.
final_confidence_above_20(clamped, ml_divergence) ==
    IF ml_divergence > 200 THEN clamped * 85 ELSE clamped * 100

\* Lines 258-260: the ML divergence discount; result in units of 10^-9.
final_confidence(clamped, ml_divergence) ==
    IF ml_divergence > 150 THEN clamped * 85 ELSE clamped * 100

\* published_prediction with the ML blend as the headline in every mode.
published_prediction_always_blended(use_experimental_ml, experimental, validated) ==
    Round(experimental.n, experimental.d)

\* Line 270: the headline value, in tenths: the unvalidated experimental
\* estimate in EXPERIMENTAL mode, the validated SAFE estimate otherwise.
published_prediction(use_experimental_ml, experimental, validated) ==
    IF use_experimental_ml THEN Round(experimental.n, experimental.d) ELSE validated

\* RoundWeight truncating to three decimals, not rounding.
RoundWeight_truncated(part, total) == (part * 1000) \div total

\* round(weight, 3) of part/total, in thousandths.
RoundWeight(part, total) == Round(part * 1000, total)

ensemble_predict_body_fat(ml_prediction, rules_prediction, texture_data, bmi, sex, measurements, ratios, use_experimental_ml) ==
    IF ml_prediction = None
    THEN \* line 185: abs(None - rules_prediction) raises
         [status |-> "raised", error |-> "TypeError"]
    ELSE
    LET ml == ml_prediction[1]
        texture_prediction == estimate_bf_from_definition(texture_data, sex, bmi)
        conf == adjusted_confidences(texture_data, bmi, measurements, ratios)
        ml_base == calculate_ml_confidence(measurements, ratios, bmi)
        safe == safe_fusion(rules_prediction, texture_prediction, conf.rules, conf.texture)
        ml_divergence == Abs(ml - rules_prediction)
        ml_conf == experimental_ml_confidence(ml_base, ml_divergence)
        total_exp == ml_conf + conf.rules + conf.texture
        experimental == experimental_fusion(ml, rules_prediction, texture_prediction,
                                            ml_conf, conf.rules, conf.texture)
        validation == validate_and_adjust_bf(safe, bmi, sex, measurements, ratios)
        clamped == clamped_confidence(rules_prediction, texture_prediction,
                                      conf.rules, conf.texture)
        confidence == final_confidence(clamped, ml_divergence)
        adjustments ==
            special_case_notes(texture_data, bmi, measurements, ratios)
            \o (IF use_experimental_ml /\ ml_divergence > 100 THEN <<"ml_diverges">> ELSE <<>>)
            \o (IF validation.was_adjusted THEN <<"validation">> ELSE <<>>)
            \o (IF ml_divergence > 150 THEN <<"confidence_reduced">> ELSE <<>>)
    IN  [status |-> "returned",
         final_prediction |->
            published_prediction(use_experimental_ml, experimental, validation.adjusted_bf),
         safe_prediction |-> validation.adjusted_bf,
         experimental_prediction |->
            IF use_experimental_ml /\ experimental.n # 0
            THEN Some(Round(experimental.n, experimental.d)) ELSE None,
         ml_prediction |-> ml,
         rules_prediction |-> rules_prediction,
         texture_prediction |-> texture_prediction,
         safe_weights |->
            [rules |-> RoundWeight(conf.rules, conf.rules + conf.texture),
             texture |-> RoundWeight(conf.texture, conf.rules + conf.texture)],
         experimental_weights |->
            IF use_experimental_ml
            THEN Some([ml |-> RoundWeight(ml_conf, total_exp),
                       rules |-> RoundWeight(conf.rules, total_exp),
                       texture |-> RoundWeight(conf.texture, total_exp)])
            ELSE None,
         mode |-> IF use_experimental_ml THEN "EXPERIMENTAL" ELSE "SAFE",
         confidence |-> Round(confidence, 10 * CONF),
         confidence_level |-> get_confidence_level(confidence),
         adjustments |-> adjustments,
         ml_analysis |->
            [prediction |-> ml,
             divergence_from_rules |-> ml_divergence,
             confidence_impact |-> IF ml_divergence > 150 THEN "reduced" ELSE "neutral",
             status |-> IF use_experimental_ml THEN "active" ELSE "quarantine"],
         special_cases |->
            [is_athlete |-> is_athlete(texture_data, bmi),
             is_overweight |-> is_overweight(bmi, ratios),
             measurements_suspicious |-> measurements_suspicious(measurements, ratios),
             low_image_quality |-> conf.texture < Scale(CONF, 4, 10)]]

-----------------------------------------------------------------------------
(* body_fat_logic.estimate_body_fat                                        *)

\* Lines 14-23: base value by body type, in percent.
base_body_fat(body_type, sex) ==
    IF body_type = "lean" THEN (IF sex = "male" THEN 10 ELSE 18)
    ELSE IF body_type = "athletic" THEN (IF sex = "male" THEN 12 ELSE 20)
    ELSE IF body_type = "muscular" THEN (IF sex = "male" THEN 15 ELSE 23)
    ELSE IF body_type = "overweight" THEN (IF sex = "male" THEN 25 ELSE 32)
    ELSE (IF sex = "male" THEN 15 ELSE 25)

\* Lines 26-39: the seven BMI bands, in percent.
bmi_adjustment(bmi) ==
    IF bmi < 185 THEN -3
    ELSE IF bmi < 220 THEN -1
    ELSE IF bmi < 250 THEN 1
    ELSE IF bmi < 275 THEN 4
    ELSE IF bmi < 300 THEN 7
    ELSE IF bmi < 325 THEN 10
    ELSE 14

\* waist_adjustment with the two upper male bands swapped.
waist_adjustment_swapped_bands(ratios, sex) ==
    LET waist_to_shoulder == Get(ratios, "waist_to_shoulder", 0)
    IN  IF sex = "male"
        THEN IF waist_to_shoulder > 70 THEN 4
             ELSE IF waist_to_shoulder > 65 THEN 6
             ELSE IF waist_to_shoulder > 58 THEN 2
             ELSE IF waist_to_shoulder > 52 THEN 1
             ELSE 0
        ELSE IF waist_to_shoulder > 75 THEN 5
             ELSE IF waist_to_shoulder > 70 THEN 3
             ELSE IF waist_to_shoulder > 62 THEN 2
             ELSE IF waist_to_shoulder > 55 THEN 1
             ELSE 0

\* waist_adjustment with the bands of the two sexes exchanged.
waist_adjustment_sexes_exchanged(ratios, sex) ==
    LET waist_to_shoulder == Get(ratios, "waist_to_shoulder", 0)
    IN  IF sex # "male"
        THEN IF waist_to_shoulder > 70 THEN 6
             ELSE IF waist_to_shoulder > 65 THEN 4
             ELSE IF waist_to_shoulder > 58 THEN 2
             ELSE IF waist_to_shoulder > 52 THEN 1
             ELSE 0
        ELSE IF waist_to_shoulder > 75 THEN 5
             ELSE IF waist_to_shoulder > 70 THEN 3
             ELSE IF waist_to_shoulder > 62 THEN 2
             ELSE IF waist_to_shoulder > 55 THEN 1
             ELSE 0

\* Lines 42-65: the sex-specific waist bands, in percent. An empty or absent
\* ratios dict adds nothing.
waist_adjustment(ratios, sex) ==
    LET waist_to_shoulder == Get(ratios, "waist_to_shoulder", 0)
    IN  IF sex = "male"
        THEN IF waist_to_shoulder > 70 THEN 6
             ELSE IF waist_to_shoulder > 65 THEN 4
             ELSE IF waist_to_shoulder > 58 THEN 2
             ELSE IF waist_to_shoulder > 52 THEN 1
             ELSE 0
        ELSE IF waist_to_shoulder > 75 THEN 5
             ELSE IF waist_to_shoulder > 70 THEN 3
             ELSE IF waist_to_shoulder > 62 THEN 2
             ELSE IF waist_to_shoulder > 55 THEN 1
             ELSE 0

\* Lines 68-86: volume and waist-prominence bands, in percent. volume_indicator
\* and waist_prominence are in hundredths.
visual_adjustment(measurements) ==
    LET volume_indicator == Get(measurements, "volume_indicator", 0)
        waist_prominence == Get(measurements, "waist_prominence", 0)
    IN  (IF volume_indicator > 25 THEN 3
         ELSE IF volume_indicator > 20 THEN 2
         ELSE IF volume_indicator > 15 THEN 1
         ELSE 0)
        + (IF waist_prominence > 3 THEN 4
           ELSE IF waist_prominence > 1 THEN 2
           ELSE IF waist_prominence > 0 THEN 1
           ELSE 0)

\* Lines 14-86: the sum of base and adjustments, in hundredths of a percent.
rule_sum(body_type, bmi, sex, ratios, measurements) ==
    100 * (base_body_fat(body_type, sex) + bmi_adjustment(bmi)
           + waist_adjustment(ratios, sex) + visual_adjustment(measurements))

\* add_noise with the perturbation ten times as wide.
add_noise_scaled(body_fat, noise) == body_fat + 10 * noise

\* Line 92: the perturbation added to the sum (both in hundredths).
add_noise(body_fat, noise) == body_fat + noise

\* clamp_and_round that rounds without clamping.
round_without_clamp(body_fat, sex) == Round(body_fat, 10)

\* Lines 95-100: clamp to the sex bounds and round to one decimal (tenths).
clamp_and_round(body_fat, sex) ==
    Round(Max(LowerBound(sex) * 10, Min(body_fat, UpperBound(sex) * 10)), 10)

\* estimate_body_fat; noise is the value random.uniform(-0.5, 0.5) returned in
\* this call (line 90), in hundredths of a percent.
estimate_body_fat(body_type, bmi, sex, ratios, measurements, noise) ==
    clamp_and_round(add_noise(rule_sum(body_type, bmi, sex, ratios, measurements), noise),
                    sex)

-----------------------------------------------------------------------------
(* bf_estimator.estimate_body_composition, lines 167-242: the ML prediction *)
(* and the choice between the ensemble and the rule-only fallback.          *)

\* Lines 208-236: what estimate_body_composition keeps of the ensemble result.
fusion_of_ensemble(ensemble_result, ml_alerts) ==
    [body_fat |-> ensemble_result.safe_prediction,
     estimation_method |-> "Ensemble V3",
     alerts |-> ml_alerts \o ensemble_result.adjustments,
     ensemble_info |-> Some(
       [mode |-> ensemble_result.mode,
        ml_prediction |-> ensemble_result.ml_prediction,
        rules_prediction |-> ensemble_result.rules_prediction,
        texture_prediction |-> ensemble_result.texture_prediction,
        safe_prediction |-> ensemble_result.safe_prediction,
        experimental_prediction |-> ensemble_result.experimental_prediction,
        safe_weights |-> ensemble_result.safe_weights,
        experimental_weights |-> ensemble_result.experimental_weights,
        confidence |-> ensemble_result.confidence,
        confidence_level |-> ensemble_result.confidence_level,
        ml_analysis |-> ensemble_result.ml_analysis,
        special_cases |-> ensemble_result.special_cases])]

\* ml_outcome is what BodyFatRegressor gives: Some(prediction), or None when
\* loading the model, building the features or predicting raises.
\* default_experimental is the module constant USE_EXPERIMENTAL_ML.
\* The ensemble is called once and its result bound (the singleton set).
estimate_fusion_stage(use_ml, ml_outcome, rules_prediction, texture_data, bmi, sex, measurements, ratios, use_ensemble, default_experimental) ==
    LET ml_prediction == IF use_ml THEN ml_outcome ELSE None
        ml_alerts == IF use_ml /\ ml_outcome = None THEN <<"ml_unavailable">> ELSE <<>>
    IN  IF use_ensemble /\ ml_prediction # None
        THEN CHOOSE outcome \in
                 { fusion_of_ensemble(ensemble_result, ml_alerts) :
                     ensemble_result \in
                       { ensemble_predict_body_fat(ml_prediction, rules_prediction,
                                                   texture_data, bmi, sex, measurements,
                                                   ratios, default_experimental) } } : TRUE
        ELSE [body_fat |-> rules_prediction,
              estimation_method |-> "Rule-based",
              alerts |-> ml_alerts,
              ensemble_info |-> None]

-----------------------------------------------------------------------------
(* body_classifier.classify_body_type                                      *)

\* Lines 7-27. Ratios in hundredths; bmi is None or Some(tenths), and
\* `bmi and bmi >= 28` is false for None and for 0.
classify_body_type(ratios, sex, bmi) ==
    LET waist_to_shoulder == Get(ratios, "waist_to_shoulder", 0)
        hip_to_shoulder == Get(ratios, "hip_to_shoulder", 0)
        high_bmi == bmi # None /\ bmi[1] # 0 /\ bmi[1] >= 280
    IN  IF sex = "female"
        THEN IF waist_to_shoulder < 45 /\ hip_to_shoulder < 90 THEN "muscular"
             ELSE IF waist_to_shoulder > 60 \/ high_bmi THEN "overweight"
             ELSE "lean"
        ELSE IF waist_to_shoulder < 40 /\ hip_to_shoulder < 85 THEN "muscular"
             ELSE IF waist_to_shoulder > 60 \/ high_bmi THEN "overweight"
             ELSE "lean"

-----------------------------------------------------------------------------
(* body_ratios.calculate_body_ratios                                       *)

\* Lines 1-6: the three entries are evaluated in order, each reading the
\* numerator key, then shoulder_width, then dividing. Widths and ratios in
\* hundredths; the sampled widths make every quotient a whole number of them.
calculate_body_ratios(m) ==
    IF "waist_width" \notin DOMAIN m \/ "shoulder_width" \notin DOMAIN m
    THEN [status |-> "raised", error |-> "KeyError"]
    ELSE IF m.shoulder_width = 0
    THEN [status |-> "raised", error |-> "ZeroDivisionError"]
    ELSE IF "hip_width" \notin DOMAIN m \/ "torso_height" \notin DOMAIN m
    THEN [status |-> "raised", error |-> "KeyError"]
    ELSE [status |-> "returned",
          ratios |-> [waist_to_shoulder |-> (m.waist_width * 100) \div m.shoulder_width,
                      hip_to_shoulder |-> (m.hip_width * 100) \div m.shoulder_width,
                      torso_to_shoulder |-> (m.torso_height * 100) \div m.shoulder_width]]

-----------------------------------------------------------------------------
(* bf_estimator.check_age_visual and estimate_body_composition as a whole  *)

MinimumAge == 16

\* Lines 43-52: `predicted_age and predicted_age < minimum_age`, so an age of
\* 0, being falsy, is not blocked.
check_age_visual(predicted_age, minimum_age) ==
    IF predicted_age # 0 /\ predicted_age < minimum_age
    THEN [error |-> "underage", block_reason |-> "UNDERAGE", person_detected |-> TRUE,
          predicted_age |-> predicted_age]
    ELSE [ok |-> TRUE]

\* _get_default_result of the texture analyzer, returned when it fails.
default_texture_result ==
    [definition_score |-> 50, abs_visibility |-> 50, vascularity |-> 50,
     central_fat |-> 50, confidence |-> 3]

\* Lines 300-309: what the except clause returns.
processing_error(detail, measurements, steps) ==
    [kind |-> "error", error |-> "processing", detail |-> detail,
     raw_measurements |-> measurements, steps |-> steps]

\* Lines 260-298: the result built from the fusion stage.
result_of_fusion(fusion, body_type, bmi, sex, steps) ==
    [kind |-> "result",
     person_detected |-> TRUE,
     body_type |-> body_type,
     body_fat_percentage |-> fusion.body_fat,
     bmi |-> bmi,
     estimation_method |-> fusion.estimation_method,
     sex_used_for_calculation |-> sex,
     alerts |-> fusion.alerts,
     ensemble_info |-> fusion.ensemble_info,
     steps |-> steps]

\* Lines 151-298: ratios, BMI, body type, ML, rules, fusion, result. bmi is the
\* value of line 157, in tenths; steps lists what was computed so far.
estimate_from_ratios(measurements, texture_data, bmi, sex, use_ml, ml_outcome, use_ensemble, default_experimental, noise, steps) ==
    LET ratio_result == calculate_body_ratios(measurements)
    IN  IF ratio_result.status = "raised"
        THEN processing_error(ratio_result.error, measurements, steps)
        ELSE LET ratios == ratio_result.ratios
                 body_type == classify_body_type(ratios, sex, Some(bmi))
                 done == steps \o <<"ratios", "bmi", "body_type", "ml", "rules", "fusion">>
             IN  CHOOSE outcome \in
                     { result_of_fusion(fusion, body_type, bmi, sex, done) :
                         fusion \in
                           { estimate_fusion_stage(
                                 use_ml, ml_outcome,
                                 estimate_body_fat(body_type, bmi, sex, ratios,
                                                   measurements, noise),
                                 texture_data, bmi, sex, measurements, ratios,
                                 use_ensemble, default_experimental) } } : TRUE

\* estimate_body_composition, lines 75-309. image_valid is the verdict of
\* validate_image_content; extraction is None when extract_body_measurements
\* raises and Some(measurements) otherwise; texture_failed says the texture
\* analysis fell back to its default result; visual_age is None or Some(age).
estimate_body_composition(image_valid, extraction, texture_failed, texture_signals, visual_age, bmi, sex, use_ml, ml_outcome, use_ensemble, default_experimental, noise) ==
    IF ~image_valid
    THEN [kind |-> "error", error |-> "invalid_image", steps |-> <<"image_validation">>]
    ELSE IF extraction = None
    THEN processing_error("extraction", << >>, <<"image_validation">>)
    ELSE IF ~Get(extraction[1], "person_detected", FALSE)
    THEN [kind |-> "error", error |-> "no_person", person_detected |-> FALSE,
          steps |-> <<"image_validation", "measurements">>]
    ELSE IF visual_age # None /\ "error" \in DOMAIN check_age_visual(visual_age[1], MinimumAge)
    THEN [kind |-> "error", error |-> "underage",
          block_reason |-> check_age_visual(visual_age[1], MinimumAge).block_reason,
          predicted_age |-> visual_age[1],
          steps |-> <<"image_validation", "measurements", "texture", "visual", "age_check">>]
    ELSE estimate_from_ratios(
             extraction[1],
             IF texture_failed THEN default_texture_result ELSE texture_signals,
             bmi, sex, use_ml, ml_outcome, use_ensemble, default_experimental, noise,
             <<"image_validation", "measurements", "texture", "visual", "age_check">>)

\* main.estimate_body, lines 175-247: an estimation holding "error" becomes
\* HTTP 400; otherwise the estimate is returned.
estimate_body(estimation) ==
    IF estimation.kind = "error"
    THEN [status_code |-> 400, error |-> estimation.error]
    ELSE [status_code |-> 200, body_fat_percentage |-> estimation.body_fat_percentage,
          body_type |-> estimation.body_type, alerts |-> estimation.alerts]

-----------------------------------------------------------------------------
(* Inputs of the model                                                     *)

Sexes == {"male", "female"}

\* How many entries of each sample table the model draws from.
NBmi == 6

NWaist == 5

NConfidence == 5

\* BMI samples in tenths: around every threshold the code tests
\* (18, 18.5, 20, 22, 26, 28, 30, 35).
BmiSamples == <<280, 200, 285, 240, 170, 360, 310, 215, 265, 300, 185, 330>>

BmiValues == {BmiSamples[i] : i \in 1..NBmi}

\* waist_to_shoulder samples in hundredths, around 0.35/0.50/0.65/0.70/0.80.
WaistSamples == <<68, 45, 60, 72, 85, 30, 54, 76, 64, 40, 57>>

WaistValues == {WaistSamples[i] : i \in 1..NWaist}

\* TextureSignals.confidence samples in tenths (range [0, 1]).
ConfidenceSamples == <<7, 3, 10, 4, 0, 5, 9, 2, 6, 8, 1>>

ConfidenceValues == {ConfidenceSamples[i] : i \in 1..NConfidence}

\* TextureSignals score profiles in hundredths (each score in [0, 1]).
TextureProfiles ==
    { [definition_score |-> 50, abs_visibility |-> 50, vascularity |-> 50, central_fat |-> 50],
      [definition_score |-> 90, abs_visibility |-> 90, vascularity |-> 90, central_fat |-> 20],
      [definition_score |-> 0, abs_visibility |-> 0, vascularity |-> 0, central_fat |-> 55],
      [definition_score |-> 30, abs_visibility |-> 20, vascularity |-> 10, central_fat |-> 80],
      [definition_score |-> 70, abs_visibility |-> 70, vascularity |-> 60, central_fat |-> 68] }

TextureData ==
    { [definition_score |-> p.definition_score, abs_visibility |-> p.abs_visibility,
       vascularity |-> p.vascularity, central_fat |-> p.central_fat, confidence |-> c] :
      p \in TextureProfiles, c \in ConfidenceValues }

\* Measurements in hundredths; the last one lacks volume_indicator.
MeasurementValues ==
    { [shoulder_width |-> 40, hip_width |-> 30, volume_indicator |-> 15],
      [shoulder_width |-> 40, hip_width |-> 30, volume_indicator |-> 25],
      [shoulder_width |-> 20, hip_width |-> 30, volume_indicator |-> 40],
      [shoulder_width |-> 40, hip_width |-> 10, volume_indicator |-> 5],
      [shoulder_width |-> 40, hip_width |-> 30] }

RatioValues == { [waist_to_shoulder |-> w] : w \in WaistValues }

\* Estimates within the sex bounds, in tenths, one decimal as their producers
\* round them.
RulesInputs(sex) == {LowerBound(sex), 190, UpperBound(sex)}

\* The ML estimate, or None when the regression model is unavailable.
MlEstimates(sex) == {300, 390, UpperBound(sex)}

MlInputs(sex) == {None} \cup {Some(m) : m \in MlEstimates(sex)}

-----------------------------------------------------------------------------
(* State machine: one call of a function per behaviour                     *)

Init ==
    /\ pc = "idle"
    /\ op = "none"
    /\ args = <<>>
    /\ res = <<>>
    /\ again = None

\* A call of ensemble_predict_body_fat.
EnsembleCall(ml, rules, texture, bmi, sex, measurements, ratios, experimental) ==
    /\ pc = "idle"
    /\ pc' = "done"
    /\ op' = "ensemble"
    /\ args' = [ml_prediction |-> ml, rules_prediction |-> rules, texture_data |-> texture,
                bmi |-> bmi, sex |-> sex, measurements |-> measurements, ratios |-> ratios,
                use_experimental_ml |-> experimental]
    /\ res' = ensemble_predict_body_fat(ml, rules, texture, bmi, sex, measurements,
                                        ratios, experimental)
    /\ again' = again

NextEnsemble ==
    /\ pc = "idle"
    /\ \E sex \in Sexes, bmi \in BmiValues, texture \in TextureData,
          measurements \in MeasurementValues, ratios \in RatioValues,
          experimental \in BOOLEAN :
          \E ml \in MlInputs(sex), rules \in RulesInputs(sex) :
              EnsembleCall(ml, rules, texture, bmi, sex, measurements, ratios, experimental)

SpecEnsemble == Init /\ [][NextEnsemble]_vars

\* A call of validate_and_adjust_bf on a one-decimal candidate estimate.
ValidateCall(bf, bmi, sex, measurements, ratios) ==
    /\ pc = "idle"
    /\ pc' = "done"
    /\ op' = "validate"
    /\ args' = [bf_prediction |-> bf, bmi |-> bmi, sex |-> sex,
                measurements |-> measurements, ratios |-> ratios]
    /\ res' = validate_and_adjust_bf(Frac(bf, 1), bmi, sex, measurements, ratios)
    /\ again' = again

\* Candidate estimates, in tenths.
CandidateEstimates == {50, 170, 185, 195, 205, 215, 225, 300, 450}

\* The adjusted_bf of the call fed back to validate_and_adjust_bf with the
\* other arguments unchanged.
ValidateAgain ==
    /\ pc = "done"
    /\ op = "validate"
    /\ pc' = "repeated"
    /\ again' = Some(validate_and_adjust_bf(Frac(res.adjusted_bf, 1), args.bmi, args.sex,
                                            args.measurements, args.ratios))
    /\ UNCHANGED <<op, args, res>>

NextValidator ==
    \/ /\ pc = "idle"
       /\ \E bf \in CandidateEstimates, bmi \in BmiValues, sex \in Sexes,
             measurements \in MeasurementValues, ratios \in RatioValues :
             ValidateCall(bf, bmi, sex, measurements, ratios)
    \/ ValidateAgain

SpecValidator == Init /\ [][NextValidator]_vars

\* The values random.uniform(-0.5, 0.5) can return, sampled, in hundredths.
NoiseValues == {-50, -26, -4, 0, 4, 26, 50}

BodyTypes == {"lean", "athletic", "muscular", "overweight", "unknown"}

\* Measurements for the rule estimator, in hundredths.
RuleMeasurements ==
    { [volume_indicator |-> 15, waist_prominence |-> 0],
      [volume_indicator |-> 22, waist_prominence |-> 2],
      [volume_indicator |-> 30, waist_prominence |-> 5],
      << >> }

\* Ratios for the rule estimator: every waist band of both sexes, and none.
RuleRatioValues ==
    { [waist_to_shoulder |-> WaistSamples[i]] : i \in 1..Len(WaistSamples) } \cup { << >> }

\* A call of estimate_body_fat; the noise is drawn inside the call.
RulesCall(body_type, bmi, sex, ratios, measurements) ==
    /\ pc = "idle"
    /\ pc' = "done"
    /\ op' = "rules"
    /\ args' = [body_type |-> body_type, bmi |-> bmi, sex |-> sex, ratios |-> ratios,
                measurements |-> measurements]
    /\ \E noise \in NoiseValues :
        res' = [body_fat |-> estimate_body_fat(body_type, bmi, sex, ratios, measurements,
                                               noise),
                noise |-> noise]
    /\ again' = again

\* The same call made a second time with the same arguments.
RulesCallAgain ==
    /\ pc = "done"
    /\ op = "rules"
    /\ pc' = "repeated"
    /\ \E noise \in NoiseValues :
        again' = Some([body_fat |-> estimate_body_fat(args.body_type, args.bmi, args.sex,
                                                      args.ratios, args.measurements, noise),
                       noise |-> noise])
    /\ UNCHANGED <<op, args, res>>

NextRules ==
    \/ /\ pc = "idle"
       /\ \E body_type \in BodyTypes, bmi \in BmiValues, sex \in Sexes,
             ratios \in RuleRatioValues, measurements \in RuleMeasurements :
             RulesCall(body_type, bmi, sex, ratios, measurements)
    \/ RulesCallAgain

SpecRules == Init /\ [][NextRules]_vars

\* The fusion stage of estimate_body_composition (lines 167-242).
FusionStageCall(use_ml, ml_outcome, rules, texture, bmi, sex, measurements, ratios, use_ensemble, default_experimental) ==
    /\ pc = "idle"
    /\ pc' = "done"
    /\ op' = "fusion_stage"
    /\ args' = [use_ml |-> use_ml, ml_outcome |-> ml_outcome, rules_prediction |-> rules,
                texture_data |-> texture, bmi |-> bmi, sex |-> sex,
                measurements |-> measurements, ratios |-> ratios,
                use_ensemble |-> use_ensemble, default_experimental |-> default_experimental]
    /\ res' = estimate_fusion_stage(use_ml, ml_outcome, rules, texture, bmi, sex,
                                    measurements, ratios, use_ensemble, default_experimental)
    /\ again' = again

NextFusionStage ==
    /\ pc = "idle"
    /\ \E sex \in Sexes, bmi \in BmiValues, texture \in TextureData,
          ratios \in RatioValues, use_ml \in BOOLEAN, use_ensemble \in BOOLEAN,
          default_experimental \in BOOLEAN :
          \E ml_outcome \in MlInputs(sex), rules \in RulesInputs(sex) :
              FusionStageCall(use_ml, ml_outcome, rules, texture, bmi, sex,
                              [shoulder_width |-> 40, hip_width |-> 30,
                               volume_indicator |-> 15],
                              ratios, use_ensemble, default_experimental)

SpecFusionStage == Init /\ [][NextFusionStage]_vars

-----------------------------------------------------------------------------
(* Properties of ensemble_predict_body_fat                                 *)

EnsembleReturned == op = "ensemble" /\ res.status = "returned"

WithinSexBounds(bf, sex) == LowerBound(sex) <= bf /\ bf <= UpperBound(sex)

\* C1: for in-range inputs, in SAFE and in EXPERIMENTAL mode alike, the
\* returned final_prediction lies within the sex bounds ([5,45] male,
\* [12,50] female).
C1_FinalPredictionWithinSexBounds ==
    EnsembleReturned => WithinSexBounds(res.final_prediction, args.sex)

SameCallWithMl(ml) ==
    ensemble_predict_body_fat(Some(ml), args.rules_prediction, args.texture_data, args.bmi,
                              args.sex, args.measurements, args.ratios,
                              args.use_experimental_ml)

\* C3: with use_experimental_ml = false, two calls that differ only in
\* ml_prediction return the same final_prediction, safe_prediction and
\* safe_weights.
C3_SafeNumberIndependentOfMl ==
    (EnsembleReturned /\ ~args.use_experimental_ml) =>
        \A ml \in MlEstimates(args.sex) :
            LET other == SameCallWithMl(ml)
            IN  /\ other.final_prediction = res.final_prediction
                /\ other.safe_prediction = res.safe_prediction
                /\ other.safe_weights = res.safe_weights

\* C3 witness: a SAFE-mode call for which another ML estimate changes the
\* confidence but, by C3, not the published number.
C3_Witness ==
    /\ EnsembleReturned
    /\ ~args.use_experimental_ml
    /\ \E ml \in MlEstimates(args.sex) :
        /\ Some(ml) # args.ml_prediction
        /\ SameCallWithMl(ml).confidence # res.confidence

\* C5: male, BMI = 28, waist_to_shoulder = 0.68, rules estimate 19, texture
\* estimate 24, measurements not suspicious: is_overweight is true, the SAFE
\* rules weight exceeds the SAFE texture weight and the safe estimate lies
\* between 19 and 24.
C5_OverweightScenario ==
    ( /\ EnsembleReturned
      /\ args.sex = "male"
      /\ args.bmi = 280
      /\ args.ratios.waist_to_shoulder = 68
      /\ args.rules_prediction = 190
      /\ res.texture_prediction = 240
      /\ ~res.special_cases.measurements_suspicious )
    => /\ res.special_cases.is_overweight
       /\ res.safe_weights.rules > res.safe_weights.texture
       /\ 190 <= res.safe_prediction
       /\ res.safe_prediction <= 240

\* C7: in EXPERIMENTAL mode with |ml - rules| > 10 the experimental weights
\* are the normalization of (0.3 * ML confidence, rules confidence, texture
\* confidence); and in either mode, with |ml - rules| > 15 the returned
\* confidence is the clamped confidence times 0.85.
C7_MlDivergenceDiscounts ==
    EnsembleReturned =>
        LET divergence == Abs(args.ml_prediction[1] - args.rules_prediction)
            conf == adjusted_confidences(args.texture_data, args.bmi,
                                         args.measurements, args.ratios)
            ml == (calculate_ml_confidence(args.measurements, args.ratios, args.bmi) * 3)
                  \div 10
            total == ml + conf.rules + conf.texture
            clamped == clamped_confidence(args.rules_prediction, res.texture_prediction,
                                          conf.rules, conf.texture)
        IN  /\ (args.use_experimental_ml /\ divergence > 100) =>
                res.experimental_weights =
                    Some([ml |-> Round(ml * 1000, total),
                          rules |-> Round(conf.rules * 1000, total),
                          texture |-> Round(conf.texture * 1000, total)])
            /\ divergence > 150 => res.confidence = Round(clamped * 85, 10 * CONF)

\* C7 witness: an EXPERIMENTAL call whose ML estimate is exactly 20 points
\* away from the rules estimate.
C7_Witness ==
    /\ EnsembleReturned
    /\ args.use_experimental_ml
    /\ Abs(args.ml_prediction[1] - args.rules_prediction) = 200
    /\ res.ml_analysis.confidence_impact = "reduced"

\* The SAFE blend of the current call before the validator sees it.
SafeBeforeValidation ==
    LET conf == adjusted_confidences(args.texture_data, args.bmi,
                                     args.measurements, args.ratios)
    IN  safe_fusion(args.rules_prediction, res.texture_prediction, conf.rules, conf.texture)

\* C26: the SAFE blend before validation lies between the smaller and the
\* larger of rules_prediction and texture_prediction, and equals them when
\* they are equal, whatever special cases hold; when both lie within the sex
\* bounds and the validator adjusts nothing, so does the returned
\* safe_prediction.
C26_SafeBlendBetweenItsInputs ==
    EnsembleReturned =>
        LET safe == SafeBeforeValidation
            lo == Min(args.rules_prediction, res.texture_prediction)
            hi == Max(args.rules_prediction, res.texture_prediction)
        IN  /\ safe.d > 0
            /\ lo * safe.d <= safe.n
            /\ safe.n <= hi * safe.d
            /\ lo = hi => safe.n = lo * safe.d
            /\ (/\ WithinSexBounds(lo, args.sex)
                /\ WithinSexBounds(hi, args.sex)
                /\ \A i \in DOMAIN res.adjustments : res.adjustments[i] # "validation")
                   => (lo <= res.safe_prediction /\ res.safe_prediction <= hi)

\* C26 witness: equal rules and texture estimates with a special case
\* changing the confidences, the blend equal to both.
C26_Witness ==
    /\ EnsembleReturned
    /\ args.rules_prediction = res.texture_prediction
    /\ res.special_cases.is_overweight
    /\ SafeBeforeValidation.n = args.rules_prediction * SafeBeforeValidation.d
    /\ res.safe_prediction = args.rules_prediction

\* The ML confidence of the current call as the EXPERIMENTAL fusion uses it.
MlConfidenceOfCall ==
    experimental_ml_confidence(
        calculate_ml_confidence(args.measurements, args.ratios, args.bmi),
        Abs(args.ml_prediction[1] - args.rules_prediction))

\* C27: after all adjustments the rules confidence lies in [0.441, 1.0] and
\* the texture confidence in [0, 1.0], so the denominator of the SAFE fusion
\* and that of the EXPERIMENTAL fusion are strictly positive.
C27_ConfidencesBoundedDenominatorsPositive ==
    EnsembleReturned =>
        LET conf == adjusted_confidences(args.texture_data, args.bmi,
                                         args.measurements, args.ratios)
        IN  /\ 441 * (CONF \div 1000) <= conf.rules
            /\ conf.rules <= CONF
            /\ 0 <= conf.texture
            /\ conf.texture <= CONF
            /\ conf.rules + conf.texture > 0
            /\ MlConfidenceOfCall + conf.rules + conf.texture > 0
            /\ res.safe_weights.rules > 0

\* C27 witness: the athlete and the suspicious-measurements rule both
\* applied and no other, the rules confidence at its minimum 0.7 * 0.9 * 0.7.
C27_Witness ==
    /\ EnsembleReturned
    /\ res.special_cases.is_athlete
    /\ res.special_cases.measurements_suspicious
    /\ adjusted_confidences(args.texture_data, args.bmi, args.measurements,
                            args.ratios).rules = 441 * (CONF \div 1000)

\* What the validator returns for the SAFE blend of the current call.
ValidationOfSafe ==
    validate_and_adjust_bf(SafeBeforeValidation, args.bmi, args.sex,
                           args.measurements, args.ratios)

\* C12: whenever the validator returns an adjusted_bf different from the
\* candidate rounded to one decimal, was_adjusted is true, reason is non-empty
\* and the ensemble appends a validation note to adjustments.
C12_EveryAdjustmentReported ==
    (EnsembleReturned /\ ValidationOfSafe.adjusted_bf # ValidationOfSafe.original_bf) =>
        /\ ValidationOfSafe.was_adjusted
        /\ ValidationOfSafe.reason # ""
        /\ \E i \in 1..Len(res.adjustments) : res.adjustments[i] = "validation"

\* C13: with use_experimental_ml the result is EXPERIMENTAL and active, the
\* headline is the rounded weighted sum of ML, rules and texture, the
\* experimental prediction equals it, the experimental weights are present and
\* safe_prediction is the validated SAFE estimate; without it the result is
\* SAFE, the headline is safe_prediction and both experimental fields are None.
C13_ModeDecidesHeadline ==
    EnsembleReturned =>
        LET ml == args.ml_prediction[1]
            conf == adjusted_confidences(args.texture_data, args.bmi,
                                         args.measurements, args.ratios)
            ml_conf == experimental_ml_confidence(
                           calculate_ml_confidence(args.measurements, args.ratios, args.bmi),
                           Abs(ml - args.rules_prediction))
            blend == Round(ml * ml_conf + args.rules_prediction * conf.rules
                               + res.texture_prediction * conf.texture,
                           ml_conf + conf.rules + conf.texture)
        IN  IF args.use_experimental_ml
            THEN /\ res.mode = "EXPERIMENTAL"
                 /\ res.ml_analysis.status = "active"
                 /\ res.final_prediction = blend
                 /\ res.experimental_prediction = Some(res.final_prediction)
                 /\ res.experimental_weights # None
                 /\ res.safe_prediction = ValidationOfSafe.adjusted_bf
            ELSE /\ res.mode = "SAFE"
                 /\ res.final_prediction = res.safe_prediction
                 /\ res.safe_prediction = ValidationOfSafe.adjusted_bf
                 /\ res.experimental_prediction = None
                 /\ res.experimental_weights = None

\* C13 witness: an EXPERIMENTAL result whose headline differs from the
\* validated SAFE estimate returned beside it, the validator having adjusted.
C13_Witness ==
    /\ EnsembleReturned
    /\ args.use_experimental_ml
    /\ res.final_prediction # res.safe_prediction
    /\ ValidationOfSafe.was_adjusted

\* C14: the returned confidence is clamp(agreement*0.6 + mean(rules
\* confidence, texture confidence)*0.4, 0.3, 1.0), times 0.85 when the ML
\* divergence exceeds 15, with agreement = 1 - |rules - texture|/40 bounded
\* below at 0; so it lies in [0.255, 1.0], and in [0.3, 1.0] when the
\* divergence is at most 15.
C14_ConfidenceFormulaWithFloor ==
    EnsembleReturned =>
        LET conf == adjusted_confidences(args.texture_data, args.bmi,
                                         args.measurements, args.ratios)
            agreement == Max(0, CONF - Abs(args.rules_prediction - res.texture_prediction)
                                          * 2500)
            raw == agreement * 6 + (conf.rules + conf.texture) * 2
            clamped == Max(3 * CONF, Min(raw, 10 * CONF))
            divergence == Abs(args.ml_prediction[1] - args.rules_prediction)
            final == IF divergence > 150 THEN clamped * 85 ELSE clamped * 100
        IN  /\ res.confidence = Round(final, 10 * CONF)
            /\ 25 <= res.confidence
            /\ res.confidence <= 100
            /\ divergence <= 150 => 30 <= res.confidence

\* The tier of a confidence given in hundredths.
TierOfHundredths(c) ==
    IF c >= 85 THEN "Muito Alta"
    ELSE IF c >= 70 THEN "Alta"
    ELSE IF c >= 55 THEN "Media"
    ELSE IF c >= 40 THEN "Baixa"
    ELSE "Muito Baixa"

\* C15: in every result confidence_level is the tier of the confidence
\* returned in that same result, one of the five tiers.
C15_LevelIsTierOfReturnedConfidence ==
    EnsembleReturned => res.confidence_level = TierOfHundredths(res.confidence)

\* C18: in SAFE mode the weights are rules 0.60 and texture 0.40, and the
\* fused value before validation is 60% rules plus 40% texture.
C18_SafeWeightsSixtyForty ==
    (EnsembleReturned /\ ~args.use_experimental_ml) =>
        /\ res.safe_weights = [rules |-> 600, texture |-> 400]
        /\ SafeBeforeValidation.n * 10
             = (6 * args.rules_prediction + 4 * res.texture_prediction)
               * SafeBeforeValidation.d

\* The texture confidence of the current call after the athlete, overweight
\* and suspicious-measurement factors, in that order, in millionths.
TextureConfidenceBeforeLowTest ==
    LET t0 == Get(args.texture_data, "confidence", 5) * (CONF \div 10)
        t1 == IF res.special_cases.is_athlete THEN Min((t0 * 14) \div 10, CONF) ELSE t0
        t2 == IF res.special_cases.is_overweight THEN (t1 * 85) \div 100 ELSE t1
    IN  IF res.special_cases.measurements_suspicious
        THEN Min((t2 * 16) \div 10, CONF) ELSE t2

\* The rules confidence of the current call after the same three factors.
RulesConfidenceBeforeLowTest ==
    LET r0 == (CONF * 7) \div 10
        r1 == IF res.special_cases.is_athlete THEN (r0 * 9) \div 10 ELSE r0
        r2 == IF res.special_cases.is_overweight THEN Min((r1 * 13) \div 10, CONF) ELSE r1
    IN  IF res.special_cases.measurements_suspicious THEN (r2 * 7) \div 10 ELSE r2

\* The notes of the four special-case rules among the adjustments, in order.
SpecialCaseNotes ==
    SelectSeq(res.adjustments,
              LAMBDA n : n \in {"athlete", "overweight", "partial", "low_quality"})

\* C20: the four special-case rules apply in the order athlete, overweight,
\* suspicious measurements, low image quality, each multiplying what the
\* previous left; the low-quality test reads the texture confidence as
\* adjusted by the three earlier rules, and the SAFE weights are the
\* normalization of the compounded confidences.
C20_SpecialCasesCompoundInOrder ==
    EnsembleReturned =>
        LET low == TextureConfidenceBeforeLowTest < (CONF * 4) \div 10
            t == IF low THEN (TextureConfidenceBeforeLowTest * 8) \div 10
                 ELSE TextureConfidenceBeforeLowTest
            r == IF low THEN Min((RulesConfidenceBeforeLowTest * 12) \div 10, CONF)
                 ELSE RulesConfidenceBeforeLowTest
        IN  /\ SpecialCaseNotes =
                  (IF res.special_cases.is_athlete THEN <<"athlete">> ELSE <<>>)
                  \o (IF res.special_cases.is_overweight THEN <<"overweight">> ELSE <<>>)
                  \o (IF res.special_cases.measurements_suspicious
                      THEN <<"partial">> ELSE <<>>)
                  \o (IF low THEN <<"low_quality">> ELSE <<>>)
            /\ res.safe_weights = [rules |-> Round(r * 1000, r + t),
                                   texture |-> Round(t * 1000, r + t)]

\* C20 witness: a texture confidence of 0.4 as given, brought under 0.4 by
\* the overweight factor, so that the low-quality rule fires.
C20_Witness ==
    /\ EnsembleReturned
    /\ Get(args.texture_data, "confidence", 5) = 4
    /\ res.special_cases.is_overweight
    /\ ~res.special_cases.measurements_suspicious
    /\ \E i \in 1..Len(res.adjustments) : res.adjustments[i] = "low_quality"

\* Ratios for the classifier: every waist sample with hips on both sides of
\* the two muscular thresholds, and the empty dictionary.
HipValues == {80, 87, 95}

ClassifierRatios ==
    { [waist_to_shoulder |-> WaistSamples[i], hip_to_shoulder |-> h] :
        i \in 1..Len(WaistSamples), h \in HipValues } \cup { << >> }

\* A call of classify_body_type.
ClassifyCall(ratios, sex, bmi) ==
    /\ pc' = "done"
    /\ op' = "classify"
    /\ args' = [ratios |-> ratios, sex |-> sex, bmi |-> bmi]
    /\ res' = classify_body_type(ratios, sex, bmi)
    /\ again' = again

NextClassifier ==
    /\ pc = "idle"
    /\ \E ratios \in ClassifierRatios, sex \in Sexes,
          bmi \in {None, Some(0)} \cup {Some(b) : b \in BmiValues} :
          ClassifyCall(ratios, sex, bmi)

SpecClassifier == Init /\ [][NextClassifier]_vars

-----------------------------------------------------------------------------
(* Properties of classify_body_type                                        *)

\* C11: every input with BMI >= 28 is classified "overweight", whatever the
\* ratios and the sex, and the result is always lean, muscular or overweight.
C11_OverweightAtBmi28 ==
    op = "classify" =>
        /\ res \in {"lean", "muscular", "overweight"}
        /\ (args.bmi # None /\ args.bmi[1] >= 280) => res = "overweight"

-----------------------------------------------------------------------------
(* calculate_body_ratios as a call                                         *)

RatioKeys == {"waist_width", "shoulder_width", "hip_width", "torso_height"}

WidthValues == {0, 20, 40}

\* Every dictionary over a subset of the four keys.
RatioMeasurements == UNION { [D -> WidthValues] : D \in SUBSET RatioKeys }

RatiosCall(m) ==
    /\ pc' = "done"
    /\ op' = "ratios"
    /\ args' = m
    /\ res' = calculate_body_ratios(m)
    /\ again' = again

NextRatios ==
    /\ pc = "idle"
    /\ \E m \in RatioMeasurements : RatiosCall(m)

SpecRatios == Init /\ [][NextRatios]_vars

\* C16: with shoulder_width zero or missing calculate_body_ratios returns no
\* ratios and fails, in both cases, with the same division error.
C16_SameDivisionErrorForZeroAndMissing ==
    (op = "ratios" /\ Get(args, "shoulder_width", 0) = 0) =>
        /\ res.status = "raised"
        /\ res.error = "ZeroDivisionError"

-----------------------------------------------------------------------------
(* estimate_body_composition as a call                                     *)

\* What the landmark extractor may hand over: an exception (None), no person,
\* a zero shoulder width, a missing width, and two complete sets.
Extractions ==
    { None,
      Some([person_detected |-> FALSE]),
      Some([person_detected |-> TRUE, shoulder_width |-> 0, hip_width |-> 30,
            waist_width |-> 18, torso_height |-> 60, volume_indicator |-> 15]),
      Some([person_detected |-> TRUE, shoulder_width |-> 40, hip_width |-> 30,
            torso_height |-> 60, volume_indicator |-> 15]),
      Some([person_detected |-> TRUE, shoulder_width |-> 40, hip_width |-> 30,
            waist_width |-> 18, torso_height |-> 60, volume_indicator |-> 25]),
      Some([person_detected |-> TRUE, shoulder_width |-> 40, hip_width |-> 36,
            waist_width |-> 28, torso_height |-> 60, volume_indicator |-> 15,
            waist_prominence |-> 2]) }

\* Ages the face analysis may report: none, every age up to the minimum, and
\* an adult.
VisualAges == {None} \cup {Some(a) : a \in 0..MinimumAge} \cup {Some(30)}

PipelineBmi == {200, 240, 300}

PipelineTexture ==
    [definition_score |-> 90, abs_visibility |-> 90, vascularity |-> 90,
     central_fat |-> 20, confidence |-> 7]

PipelineCall(image_valid, extraction, texture_failed, visual_age, bmi, sex, use_ml, ml_outcome, use_ensemble, noise) ==
    /\ pc' = "done"
    /\ op' = "pipeline"
    /\ args' = [image_valid |-> image_valid, extraction |-> extraction,
                texture_failed |-> texture_failed, visual_age |-> visual_age,
                bmi |-> bmi, sex |-> sex, use_ml |-> use_ml, ml_outcome |-> ml_outcome,
                use_ensemble |-> use_ensemble, noise |-> noise]
    /\ \E estimation \in
            { estimate_body_composition(image_valid, extraction, texture_failed,
                                        PipelineTexture, visual_age, bmi, sex, use_ml,
                                        ml_outcome, use_ensemble, FALSE, noise) } :
          res' = [estimation |-> estimation, response |-> estimate_body(estimation)]
    /\ again' = again

NextPipeline ==
    /\ pc = "idle"
    /\ \E image_valid \in BOOLEAN, extraction \in Extractions, texture_failed \in BOOLEAN,
          visual_age \in VisualAges, bmi \in PipelineBmi, sex \in Sexes,
          use_ml \in BOOLEAN, use_ensemble \in BOOLEAN, noise \in {-50, 50} :
          \E ml_outcome \in {None, Some(300)} :
              PipelineCall(image_valid, extraction, texture_failed, visual_age, bmi, sex,
                           use_ml, ml_outcome, use_ensemble, noise)

SpecPipeline == Init /\ [][NextPipeline]_vars

\* A step after entry failed: the extractor raised, a width was zero or
\* missing, the ML model was unavailable or the texture analysis failed.
StepFailed ==
    /\ args.image_valid
    /\ \/ args.extraction = None
       \/ /\ Get(args.extraction[1], "person_detected", FALSE)
          /\ \/ calculate_body_ratios(args.extraction[1]).status = "raised"
             \/ args.use_ml /\ args.ml_outcome = None
             \/ args.texture_failed

\* C17: whatever step fails after entry, estimate_body_composition returns a
\* value, and at worst that value is an estimate carrying the lowest confidence
\* tier, which the endpoint passes on, never an error.
C17_FailureStillGivesEstimate ==
    (op = "pipeline" /\ StepFailed
        /\ (args.visual_age = None \/ args.visual_age[1] >= MinimumAge)) =>
        /\ res.estimation.kind = "result"
        /\ res.response.status_code = 200

\* C19: every detected age from 0 to 15 is blocked with block_reason UNDERAGE,
\* before ratios, BMI or any body-fat estimate is computed.
C19_UnderageBlockedBeforeEstimate ==
    (op = "pipeline" /\ args.image_valid /\ args.extraction # None
        /\ Get(args.extraction[1], "person_detected", FALSE)
        /\ args.visual_age # None /\ args.visual_age[1] < MinimumAge) =>
        /\ res.estimation.kind = "error"
        /\ res.estimation.error = "underage"
        /\ res.estimation.block_reason = "UNDERAGE"
        /\ \A i \in 1..Len(res.estimation.steps) :
               res.estimation.steps[i] \notin {"ratios", "bmi", "body_type", "rules", "fusion"}

-----------------------------------------------------------------------------
(* Properties of the fusion stage of estimate_body_composition             *)

\* C4: when the ML model is unavailable, fusion still proceeds in SAFE mode
\* over rules and texture: the result carries mode "SAFE", no experimental
\* prediction, ml_analysis.status "quarantine" and an audit note.
C4_MlUnavailableStillFuses ==
    (op = "fusion_stage" /\ args.use_ml /\ args.use_ensemble /\ args.ml_outcome = None) =>
        /\ \E i \in 1..Len(res.alerts) : res.alerts[i] = "ml_unavailable"
        /\ res.ensemble_info # None
        /\ res.ensemble_info[1].mode = "SAFE"
        /\ res.ensemble_info[1].experimental_prediction = None
        /\ res.ensemble_info[1].ml_analysis.status = "quarantine"

-----------------------------------------------------------------------------
(* Properties of validate_and_adjust_bf                                    *)

LowBmiScenario ==
    /\ op = "validate"
    /\ args.sex = "male"
    /\ args.bmi = 200
    /\ args.bf_prediction = 300

\* C6 as stated: male, BMI = 20, estimate 30: was_adjusted and adjusted_bf
\* within [8,16], whatever the measurements and ratios.
C6_LowBmiOverrideWithin8To16 ==
    LowBmiScenario =>
        /\ res.was_adjusted
        /\ 80 <= res.adjusted_bf
        /\ res.adjusted_bf <= 160

\* C6 amended: male, BMI = 20, estimate 30: was_adjusted and adjusted_bf
\* within [8,18]; it is 12 unless the athletic signature holds, and then it is
\* 8 + 20 * waist_to_shoulder, the athletic rule overwriting the low-BMI one.
C6_LowBmiOverrideWithin8To18 ==
    LowBmiScenario =>
        /\ res.was_adjusted
        /\ 80 <= res.adjusted_bf
        /\ res.adjusted_bf <= 180
        /\ IF is_athletic(args.bmi, args.measurements, args.ratios)
           THEN res.adjusted_bf = 80 + 2 * args.ratios.waist_to_shoulder
           ELSE res.adjusted_bf = 120

\* C6 witness: the scenario with the athletic rule overwriting the low-BMI
\* value by one above 16.
C6_Witness ==
    /\ LowBmiScenario
    /\ res.reason = "athletic"
    /\ res.adjusted_bf > 160

\* The triggers of the four rules on the original prediction of the call.
OriginalTriggers ==
    LET bf == Frac(args.bf_prediction, 1)
    IN  [low_bmi |-> rule_low_bmi_triggers(bf, args.bmi),
         athletic |-> rule_athletic_triggers(bf, args.bmi, args.measurements, args.ratios),
         high_bmi |-> rule_high_bmi_triggers(bf, args.bmi),
         wide_waist |-> rule_wide_waist_triggers(bf, args.ratios)]

\* The name of the last rule, in the order low-BMI, athletic, high-BMI,
\* wide-waist, whose trigger holds of the original prediction; "" if none.
LastTriggeredRule ==
    IF OriginalTriggers.wide_waist THEN "wide_waist"
    ELSE IF OriginalTriggers.high_bmi THEN "high_bmi"
    ELSE IF OriginalTriggers.athletic THEN "athletic"
    ELSE IF OriginalTriggers.low_bmi THEN "low_bmi"
    ELSE ""

\* The value that rule writes, unclamped; the original prediction if none.
ValueOfRule(rule) ==
    IF rule = "wide_waist" THEN rule_wide_waist_value(args.ratios, args.sex)
    ELSE IF rule = "high_bmi" THEN rule_high_bmi_value(args.bmi, args.sex)
    ELSE IF rule = "athletic" THEN rule_athletic_value(args.ratios, args.sex)
    ELSE IF rule = "low_bmi" THEN rule_low_bmi_value(args.bmi, args.sex)
    ELSE Frac(args.bf_prediction, 1)

\* C21: every rule tests its trigger on the original prediction; the returned
\* adjusted_bf and reason are those of the last rule triggered, in the order
\* low-BMI, athletic, high-BMI, wide-waist, with the value clamped to the sex
\* bounds; was_adjusted holds exactly when at least one rule triggered.
C21_LastTriggeredRuleWins ==
    op = "validate" =>
        LET value == ClampFrac(ValueOfRule(LastTriggeredRule), LowerBound(args.sex),
                               UpperBound(args.sex))
        IN  /\ res.reason = LastTriggeredRule
            /\ res.adjusted_bf = Round(value.n, value.d)
            /\ res.was_adjusted = (LastTriggeredRule # "")

\* C21 witness: the high-BMI and the wide-waist rule both triggered by the
\* original prediction, and the wide-waist rule reported.
C21_Witness ==
    /\ op = "validate"
    /\ OriginalTriggers.high_bmi
    /\ OriginalTriggers.wide_waist
    /\ res.reason = "wide_waist"
    /\ res.was_adjusted

\* C25 as stated: validate_and_adjust_bf is idempotent: the adjusted_bf of a
\* call fed back with the same BMI, sex, measurements and ratios is returned
\* unchanged.
C25_ValidationIdempotent ==
    (op = "validate" /\ again # None) => again[1].adjusted_bf = res.adjusted_bf

-----------------------------------------------------------------------------
(* Properties of estimate_body_fat                                         *)

\* The call of the current state repeated with another waist_to_shoulder and
\* the same noise.
SameCallWithWaist(w) ==
    estimate_body_fat(args.body_type, args.bmi, args.sex, [waist_to_shoulder |-> w],
                      args.measurements, res.noise)

LargerWaists ==
    { WaistSamples[i] : i \in 1..Len(WaistSamples) }
        \cap { w \in 0..100 : w >= Get(args.ratios, "waist_to_shoulder", 0) }

\* C9: with body type, BMI, sex, measurements and noise fixed, a larger
\* waist_to_shoulder never gives a smaller estimate.
C9_MonotoneInWaist ==
    op = "rules" => \A w \in LargerWaists : SameCallWithWaist(w) >= res.body_fat

\* C9 witness: a call for which some larger waist ratio gives a strictly
\* larger estimate.
C9_Witness ==
    /\ op = "rules"
    /\ \E w \in LargerWaists : SameCallWithWaist(w) > res.body_fat

\* The estimate without the perturbation.
NoiseFreeEstimate ==
    clamp_and_round(rule_sum(args.body_type, args.bmi, args.sex, args.ratios,
                             args.measurements), args.sex)

C22_MaleWaistAdjustmentAtLeastFemale ==
    op = "rules" =>
        waist_adjustment(args.ratios, "male") >= waist_adjustment(args.ratios, "female")

\* C22 witness: a call at a waist_to_shoulder where the male adjustment is
\* strictly greater than the female one.
C22_Witness ==
    /\ op = "rules"
    /\ args.ratios # << >>
    /\ waist_adjustment(args.ratios, "male") > waist_adjustment(args.ratios, "female")


-----------------------------------------------------------------------------
(* Calls of estimate_bf_from_definition                                    *)

\* Scores of the texture analysis, in hundredths.
ScoreValues == {0, 30, 72, 100}

\* central_fat on both sides of every threshold of the penalty (0.50, 0.60,
\* 0.70) and of the correction (0.65, 0.75), in hundredths.
CentralFatValues == {40, 50, 55, 60, 62, 65, 66, 70, 72, 75, 76, 90}

\* BMI below 20, between 20 and 30, and above 30, in tenths.
TextureBmi == {190, 240, 320}

TextureCall(definition_data, sex, bmi) ==
    /\ pc = "idle"
    /\ pc' = "done"
    /\ op' = "texture"
    /\ args' = [definition_data |-> definition_data, sex |-> sex, bmi |-> bmi]
    /\ res' = [bf_estimate |-> estimate_bf_from_definition(definition_data, sex, bmi)]
    /\ again' = again

NextTexture ==
    /\ pc = "idle"
    /\ \E d \in ScoreValues, a \in ScoreValues, v \in ScoreValues,
          c \in CentralFatValues, sex \in Sexes, bmi \in TextureBmi :
          TextureCall([definition_score |-> d, abs_visibility |-> a, vascularity |-> v,
                       central_fat |-> c], sex, bmi)

SpecTexture == Init /\ [][NextTexture]_vars

\* The estimate of the call before the central-fat correction, in TEXQ units.
BeforeCentralFatCorrection ==
    texture_bmi_override(texture_mapping(visual_score(args.definition_data), args.sex),
                         args.bmi)

\* What lines 381-384 add for the central_fat of the call, in tenths.
CentralFatAddition ==
    IF args.definition_data.central_fat > 75 THEN 50
    ELSE IF args.definition_data.central_fat > 65 THEN 30
    ELSE 0

\* C23: with central_fat > 0.65 the estimate is the one before the correction
\* plus 3 (central_fat up to 0.75) or 5 (above), capped at the sex upper
\* bound, so it never exceeds 45 for a male and 50 for a female.
C23_CentralFatCorrectionCapped ==
    (op = "texture" /\ args.definition_data.central_fat > 65) =>
        /\ res.bf_estimate <= (IF args.sex = "male" THEN 450 ELSE 500)
        /\ res.bf_estimate
             = Round(Min(BeforeCentralFatCorrection + CentralFatAddition * TEXQ,
                         (IF args.sex = "male" THEN 450 ELSE 500) * TEXQ), TEXQ)

\* C23 witness: central_fat > 0.65 and an estimate that the correction would
\* carry above the upper bound, returned at the bound.
C23_Witness ==
    /\ op = "texture"
    /\ args.definition_data.central_fat > 65
    /\ BeforeCentralFatCorrection + CentralFatAddition * TEXQ > UpperBound(args.sex) * TEXQ
    /\ res.bf_estimate = UpperBound(args.sex)

\* The call of the current state repeated with another central_fat.
SameCallWithCentralFat(c) ==
    estimate_bf_from_definition([args.definition_data EXCEPT !.central_fat = c], args.sex,
                                args.bmi)

\* C28 as stated: with sex, BMI, definition_score, abs_visibility and
\* vascularity fixed, a larger central_fat never gives a smaller estimate.
C28_MonotoneInCentralFat ==
    op = "texture" =>
        \A c \in CentralFatValues :
            c >= args.definition_data.central_fat
                => SameCallWithCentralFat(c) >= res.bf_estimate


-----------------------------------------------------------------------------
(* main.estimate_body as a request handler with its temporary file         *)

\* str.lower on the sex strings a request is drawn from.
lower(sex) == IF sex = "FEMALE" THEN "female" ELSE sex

\* os.path.splitext(filename)[1].lower() on the filenames a request is drawn
\* from.
file_ext(filename) ==
    IF filename = "photo.JPG" THEN ".jpg"
    ELSE IF filename = "notes.txt" THEN ".txt"
    ELSE ""

\* save_temp_image, line 41: the text after the last dot, "jpg" without a dot.
temp_ext(filename) ==
    IF filename = "photo.JPG" THEN "JPG"
    ELSE IF filename = "notes.txt" THEN "txt"
    ELSE "jpg"

\* Lines 107-157: the field input validation rejects with HTTP 400, "" when
\* the request is accepted. content_type "" stands for None.
input_validation(request) ==
    IF lower(request.sex) \notin {"male", "female"} THEN "sex"
    ELSE IF ~(16 <= request.age /\ request.age <= 100) THEN "age"
    ELSE IF ~(30 <= request.weight_kg /\ request.weight_kg <= 300) THEN "weight_kg"
    ELSE IF ~(100 <= request.height_cm /\ request.height_cm <= 250) THEN "height_cm"
    ELSE IF request.filename = "" THEN "filename"
    ELSE IF ~(\/ file_ext(request.filename) \in {".jpg", ".jpeg", ".png", ".webp"}
              \/ request.content_type \in {"image/jpeg", "image/png", "image/webp",
                                           "image/jpg"})
         THEN "format"
    ELSE ""

\* The finally block with os.remove never called.
remove_temp_file_skipped(image_path, temp_images, remove_raises) == temp_images

\* Lines 266-271: the files of temp_images after the finally block. os.remove
\* may raise; the exception is caught and reported, and the file stays.
remove_temp_file(image_path, temp_images, remove_raises) ==
    IF image_path # None /\ image_path[1] \in temp_images /\ ~remove_raises
    THEN temp_images \ {image_path[1]}
    ELSE temp_images

Requests ==
    [sex : {"male", "FEMALE", "other"}, age : {15, 16, 100, 101},
     weight_kg : {29, 70, 301}, height_cm : {99, 175, 251},
     filename : {"", "photo.JPG", "notes.txt", "photo"},
     content_type : {"", "image/png", "text/plain"}]

\* What estimate_body_composition hands back to the handler.
Estimations ==
    { [kind |-> "error", error |-> "Idade minima nao atendida"],
      [kind |-> "result", body_fat_percentage |-> 183, body_type |-> "lean",
       alerts |-> << >>] }

\* Lines 107-159: the request arrives and input validation runs; a rejected
\* request ends with HTTP 400 before the try block.
ReceiveRequest(request) ==
    /\ pc = "idle"
    /\ op' = "handler"
    /\ args' = request
    /\ pc' = IF input_validation(request) = "" THEN "try" ELSE "finished"
    /\ res' = [status_code |-> IF input_validation(request) = "" THEN 0 ELSE 400,
               image_path |-> None, temp_images |-> {}, save |-> "", remove |-> ""]
    /\ again' = again

\* Line 165 and save_temp_image: the file is created by aiofiles.open, then
\* the upload is read and written. open may raise before the file exists, and
\* read or write may raise after; image_path is assigned only on return.
SaveTempImage ==
    /\ pc = "try"
    /\ op = "handler"
    /\ LET path == [dir |-> "temp_images", name |-> "uuid4", ext |-> temp_ext(args.filename)]
       IN  \E outcome \in {"returned", "open_raised", "write_raised"} :
               /\ res' = [res EXCEPT
                            !.save = outcome,
                            !.image_path = IF outcome = "returned" THEN Some(path) ELSE None,
                            !.temp_images = IF outcome = "open_raised" THEN {} ELSE {path},
                            !.status_code = IF outcome = "returned" THEN 0 ELSE 500]
               /\ pc' = IF outcome = "returned" THEN "saved" ELSE "finally"
    /\ UNCHANGED <<op, args, again>>

\* Lines 175-260: the estimation and what the handler makes of it: the
\* response, HTTP 400 for an estimation error, HTTP 500 for any other exception
\* (raised by estimate_body_composition, by building the response or by
\* log_estimate).
EstimateAndRespond ==
    /\ pc = "saved"
    /\ op = "handler"
    /\ \E raised \in BOOLEAN, estimation \in Estimations :
           res' = [res EXCEPT !.status_code = IF raised THEN 500
                                              ELSE estimate_body(estimation).status_code]
    /\ pc' = "finally"
    /\ UNCHANGED <<op, args, again>>

\* Lines 262-271: the finally block, then the handler finishes.
Finally ==
    /\ pc = "finally"
    /\ op = "handler"
    /\ \E remove_raises \in BOOLEAN :
           res' = [res EXCEPT
                     !.temp_images = remove_temp_file(res.image_path, res.temp_images,
                                                      remove_raises),
                     !.remove = IF res.image_path = None THEN ""
                                ELSE IF remove_raises THEN "raised" ELSE "removed"]
    /\ pc' = "finished"
    /\ UNCHANGED <<op, args, again>>

NextHandler ==
    \/ /\ pc = "idle"
       /\ \E request \in Requests : ReceiveRequest(request)
    \/ SaveTempImage
    \/ EstimateAndRespond
    \/ Finally

SpecHandler == Init /\ [][NextHandler]_vars

HandlerFinished == op = "handler" /\ pc = "finished"

-----------------------------------------------------------------------------
(* The classifier composed with the rule estimator                         *)

\* bf_estimator lines 162 and 188-191: the body type of the classifier handed
\* to estimate_body_fat with the same ratios, BMI and sex.
rules_prediction_of(ratios, sex, bmi, measurements, noise) ==
    estimate_body_fat(classify_body_type(ratios, sex, Some(bmi)), bmi, sex, ratios,
                      measurements, noise)

ClassifiedRulesCall(ratios, sex, bmi, measurements, noise) ==
    /\ pc = "idle"
    /\ pc' = "done"
    /\ op' = "classified_rules"
    /\ args' = [ratios |-> ratios, sex |-> sex, bmi |-> bmi, measurements |-> measurements]
    /\ res' = [body_type |-> classify_body_type(ratios, sex, Some(bmi)),
               rules_prediction |-> rules_prediction_of(ratios, sex, bmi, measurements, noise),
               noise |-> noise]
    /\ again' = again

NextClassifiedRules ==
    /\ pc = "idle"
    /\ \E ratios \in ClassifierRatios \ { << >> }, sex \in Sexes, bmi \in BmiValues,
          measurements \in RuleMeasurements, noise \in NoiseValues :
          ClassifiedRulesCall(ratios, sex, bmi, measurements, noise)

SpecClassifiedRules == Init /\ [][NextClassifiedRules]_vars

\* The call of the current state repeated with another waist_to_shoulder and
\* the same hip_to_shoulder and noise.
SameClassifiedCallWithWaist(w) ==
    rules_prediction_of([args.ratios EXCEPT !.waist_to_shoulder = w], args.sex, args.bmi,
                        args.measurements, res.noise)

\* C29 as stated: with sex, BMI, hip_to_shoulder, measurements and noise
\* fixed, a larger waist_to_shoulder never gives a smaller rule-based estimate
\* once the body type is the one the classifier assigns.
C29_ClassifiedEstimateMonotoneInWaist ==
    op = "classified_rules" =>
        \A i \in 1..Len(WaistSamples) :
            WaistSamples[i] >= args.ratios.waist_to_shoulder
                => SameClassifiedCallWithWaist(WaistSamples[i]) >= res.rules_prediction


-----------------------------------------------------------------------------
(* estimate_body_composition from the ratios to the result                  *)

\* Complete measurements in hundredths: waist_to_shoulder 0.30 to 0.85 on a
\* shoulder width of 0.40, with and without visible volume.
EstimateMeasurements ==
    { [person_detected |-> TRUE, shoulder_width |-> 40, hip_width |-> 30,
       waist_width |-> w, torso_height |-> 60, volume_indicator |-> v,
       waist_prominence |-> 2] : w \in {12, 18, 24, 28, 30, 34}, v \in {15, 25} }

EstimateTexture ==
    { [definition_score |-> p.definition_score, abs_visibility |-> p.abs_visibility,
       vascularity |-> p.vascularity, central_fat |-> p.central_fat, confidence |-> 7] :
      p \in TextureProfiles }

\* Lines 151-298 of estimate_body_composition on complete measurements.
EstimateCall(measurements, texture_data, bmi, sex, use_ml, ml_outcome, use_ensemble, default_experimental, noise) ==
    /\ pc' = "done"
    /\ op' = "estimate"
    /\ args' = [measurements |-> measurements, texture_data |-> texture_data, bmi |-> bmi,
                sex |-> sex, use_ml |-> use_ml, ml_outcome |-> ml_outcome,
                use_ensemble |-> use_ensemble, default_experimental |-> default_experimental,
                noise |-> noise]
    /\ \E estimation \in
            { estimate_from_ratios(measurements, texture_data, bmi, sex, use_ml, ml_outcome,
                                   use_ensemble, default_experimental, noise,
                                   <<"image_validation", "measurements", "texture",
                                     "visual", "age_check">>) } :
          res' = estimation
    /\ again' = again

NextEstimate ==
    /\ pc = "idle"
    /\ \E measurements \in EstimateMeasurements, texture_data \in EstimateTexture,
          bmi \in BmiValues, sex \in Sexes, use_ml \in BOOLEAN, use_ensemble \in BOOLEAN,
          default_experimental \in BOOLEAN, noise \in {-50, 0, 50} :
          \E ml_outcome \in {None, Some(300), Some(UpperBound(sex))} :
              EstimateCall(measurements, texture_data, bmi, sex, use_ml, ml_outcome,
                           use_ensemble, default_experimental, noise)

SpecEstimate == Init /\ [][NextEstimate]_vars

\* The ensemble path is taken when the ensemble is enabled and the ML model
\* gave a prediction; otherwise the rule-only fallback.
EnsemblePathTaken == args.use_ensemble /\ args.use_ml /\ args.ml_outcome # None

\* C30: on every successful return, by the ensemble path or by the rule-only
\* fallback, body_fat_percentage lies within [5,45] for a male and [12,50]
\* for a female.
C30_BodyFatWithinSexBounds ==
    (op = "estimate" /\ res.kind = "result") =>
        /\ (IF args.sex = "male" THEN 50 ELSE 120) <= res.body_fat_percentage
        /\ res.body_fat_percentage <= (IF args.sex = "male" THEN 450 ELSE 500)
        /\ EnsemblePathTaken <=> res.ensemble_info # None
        /\ ~EnsemblePathTaken <=> res.estimation_method = "Rule-based"

\* C30 witness: the rule-only fallback with base and adjustments summing to
\* more than the upper bound, and the bound returned.
C30_Witness ==
    /\ op = "estimate"
    /\ res.kind = "result"
    /\ res.estimation_method = "Rule-based"
    /\ rule_sum(res.body_type, args.bmi, args.sex,
                calculate_body_ratios(args.measurements).ratios, args.measurements)
         + args.noise > UpperBound(args.sex) * 10
    /\ res.body_fat_percentage = UpperBound(args.sex)

====
